---------------------------- MODULE Spec2Model ----------------------------
(***************************************************************************)
(* papagaio (src/src/main.rs): a word-level Markov gibberish generator.    *)
(*                                                                         *)
(* The program parses its arguments, reads stdin line by line into a       *)
(* table of transition counts (Stats), ranks every word's neighbours by    *)
(* ascending count (determine_highest_usage), and either dumps that model  *)
(* (-p) or walks it with a rejection-sampling iterator (Usage).            *)
(*                                                                         *)
(* Representation.                                                         *)
(*  - A character is a one-character string, a word a sequence of          *)
(*    characters, a line the sequence of its whitespace-separated words.   *)
(*  - A HashMap is a function; its iteration order, which the hasher's     *)
(*    random seed decides, is a nondeterministic choice of a permutation   *)
(*    of its keys.                                                         *)
(*  - An f32 is an integer number of quarters (One = 1.0), or NaN.  Every  *)
(*    comparison with NaN is false, as in IEEE 754.                        *)
(*  - rand::random::<f32>() draws from [0,1): the quarters 0..One-1.       *)
(***************************************************************************)
EXTENDS Integers, Sequences, FiniteSets, TLC

VARIABLES
    argv,        \* std::env::args() after the program name
    stdin,       \* the lines of standard input, each a sequence of words
    nread,       \* lines of stdin consumed by read_stats
    args,        \* the Result<Arguments, _> of parse_arguments
    stats,       \* Stats.of : word -> (neighbour -> count)
    usage,       \* HashMap<String, Vec<String>> of determine_highest_usage
    threshold,   \* Usage.threshold
    current,     \* Usage.current
    it_word,     \* Usage::next, local it_word
    it_percent,  \* Usage::next, local it_percent
    percent,     \* Usage::next, local percent (the accepted draw)
    ret,         \* what the last call of Usage::next returned
    take_n,      \* Take.n, the items take(words) may still yield
    out,         \* the chunks written to stdout by write_sentence
    errd,        \* TRUE once main printed "error: ..." and the usage text
    dump,        \* the model printed by println!("{:#?}", usage), if any
    pc,          \* the program's position
    cur0,        \* history: current when the running call of next started
    seed,        \* history: current as Usage::new set it
    npulls,      \* history: calls of Usage::next so far
    exhausted,   \* history: some call of Usage::next has returned None
    given        \* history: the multiset of (word, neighbour) pairs fed to update

vars == <<argv, stdin, nread, args, stats, usage, threshold, current, it_word,
          it_percent, percent, ret, take_n, out, errd, dump, pc, cur0, seed,
          npulls, exhausted, given>>

-----------------------------------------------------------------------------
(* Bounds of the model. *)

\* Calls of Usage::next explored per walker.
MaxPulls == 2
\* Words of stdin, over all its lines.
MaxWords == 3
\* Lines of stdin.
MaxLines == 2
\* Arguments on the command line.
MaxArgs == 2
\* Pairs fed to Stats::update.
MaxPairs == 3

(* Constants of the program. *)

\* 1.0_f32, in quarters (main.rs:209).
One == 4
\* The default threshold 0.75 (main.rs:210, 63, 103).
DefaultThreshold == 3
\* The default number of words (main.rs:63, 96).
DefaultWords == 100
\* it_percent >= 30 (main.rs:248).
PercentCeiling == 30
\* it_word < 30 (main.rs:256).
WordFloor == 30
\* The f32 NaN: unordered with every value, itself included.
NaN == -1000

-----------------------------------------------------------------------------
(* f32 *)

FLt(a, b) == a # NaN /\ b # NaN /\ a < b
FGt(a, b) == a # NaN /\ b # NaN /\ a > b
FGe(a, b) == a # NaN /\ b # NaN /\ a >= b

\* (f * 10.0) as i32 for f in [0,1] or NaN: the cast truncates, NaN casts to 0.
TimesTenAsI32(f) == IF f = NaN THEN 0 ELSE (f * 10) \div One

\* The product rounded to the nearest integer where `as usize` truncates.
TimesLenRounded(p, len) == (p * len + One \div 2) \div One

\* (percent * (len as f32)) as usize for percent in [0,1).
TimesLenAsUsize(p, len) == (p * len) \div One

\* The values rand::random::<f32>() returns.
Draws == 0 .. (One - 1)

-----------------------------------------------------------------------------
(* Words and normalisation *)

\* normalize(ch): NFKD, lowercase, first code point.  Over the model's
\* alphabet only "A" is changed.
normalize(ch) == IF ch = "A" THEN "a" ELSE ch

\* s.chars().map(normalize).collect()
NormalizeWord(w) == [i \in 1..Len(w) |-> normalize(w[i])]

\* The words a line of input may hold.
RawWords == {<<"a">>, <<"A">>, <<"b">>, <<"c">>}

\* The words of the model after normalisation.
Tokens == {NormalizeWord(w) : w \in RawWords}

-----------------------------------------------------------------------------
(* HashMap *)

EmptyMap == <<>>

MapPut(m, k, v) == [x \in (DOMAIN m) \cup {k} |-> IF x = k THEN v ELSE m[x]]

\* The orders in which a HashMap may iterate over the key set S.
Orders(S) ==
    {f \in [1..Cardinality(S) -> S] : \A i, j \in 1..Cardinality(S) : i # j => f[i] # f[j]}

-----------------------------------------------------------------------------
(* Stats *)

\* Stats::update with the entry created at 1 in an existing Stat that is
\* replaced, so that earlier neighbours are lost.
UpdateReplacing(of, word, neigh) ==
    MapPut(of, word, MapPut(EmptyMap, neigh,
        IF word \in DOMAIN of /\ neigh \in DOMAIN of[word] THEN of[word][neigh] + 1 ELSE 1))

\* Stats::update storing 1 where the code adds 1 to the entry.
UpdateStoringOne(of, word, neigh) ==
    LET stat == IF word \in DOMAIN of THEN of[word] ELSE EmptyMap
    IN  MapPut(of, word, MapPut(stat, neigh, 1))

\* Stats::update.  The count is an i32; the tables of the model hold far fewer
\* than 2^31 occurrences of a pair, where `+= 1` overflows.
update(of, word, neigh) ==
    LET stat   == IF word \in DOMAIN of THEN of[word] ELSE EmptyMap
        number == IF neigh \in DOMAIN stat THEN stat[neigh] ELSE 0
    IN  MapPut(of, word, MapPut(stat, neigh, number + 1))


-----------------------------------------------------------------------------
(* read_stats *)

\* The pairs of a line when w_snd is line.split_whitespace().skip(1), without
\* cycle(): the last word of the line is paired with nothing.
PairsWithoutCycle(line) ==
    [i \in 1..(Len(line) - 1) |-> <<line[i], line[i + 1]>>]

\* w_fst.zip(w_snd): w_fst is the line's words, w_snd the same words repeated
\* for ever with the first one skipped; zip ends with w_fst.
Pairs(line) ==
    [i \in 1..Len(line) |-> <<line[i], line[(i % Len(line)) + 1]>>]

\* The inner for loop of read_stats from its i-th pair on.
RECURSIVE UpdateFrom(_, _, _)
UpdateFrom(of, pairs, i) ==
    IF i > Len(pairs) THEN of
    ELSE UpdateFrom(update(of, NormalizeWord(pairs[i][1]), NormalizeWord(pairs[i][2])),
                    pairs, i + 1)

\* One iteration of the outer for loop of read_stats.
ReadLineInto(of, line) == UpdateFrom(of, Pairs(line), 1)

\* read_stats over the lines from the i-th on.
RECURSIVE ReadFrom(_, _, _)
ReadFrom(of, lines, i) ==
    IF i > Len(lines) THEN of ELSE ReadFrom(ReadLineInto(of, lines[i]), lines, i + 1)

\* read_stats
ReadStats(lines) == ReadFrom(EmptyMap, lines, 1)

-----------------------------------------------------------------------------
(* determine_highest_usage *)

\* permutation::sort(numbers) restricted to the first k numbers: the indices
\* 1..k in the order of a stable ascending sort of the numbers.
RECURSIVE SortPrefix(_, _)
SortPrefix(numbers, k) ==
    IF k = 0 THEN <<>>
    ELSE LET prev == SortPrefix(numbers, k - 1)
             pos  == Cardinality({j \in 1..Len(prev) : numbers[prev[j]] <= numbers[k]})
         IN  SubSeq(prev, 1, pos) \o <<k>> \o SubSeq(prev, pos + 1, Len(prev))

\* permutation::sort(numbers)
SortPermutation(numbers) == SortPrefix(numbers, Len(numbers))

\* perm.apply_slice(words)
ApplySlice(perm, words) == [i \in 1..Len(perm) |-> words[perm[i]]]

\* The body of the outer loop with the words left in iteration order: the
\* permutation is not applied.
RankUnsorted(next, order) == order

\* The body of the outer loop for one word: `order` is the order in which
\* neighbors.next.iter() yields the neighbours.
RankNeighbors(next, order) ==
    LET numbers == [i \in 1..Len(order) |-> next[order[i]]]
        words   == order
    IN  ApplySlice(SortPermutation(numbers), words)

\* The Vecs determine_highest_usage may store for a word.
RankedFor(next) == {RankNeighbors(next, order) : order \in Orders(DOMAIN next)}

\* The outer loop of determine_highest_usage over the words `keys`: every word
\* is inserted with one of the Vecs it may get.
RECURSIVE RankAll(_, _)
RankAll(of, keys) ==
    IF keys = {} THEN {EmptyMap}
    ELSE LET word == CHOOSE k \in keys : TRUE
         IN  {MapPut(u, word, ordered_words) :
                 u \in RankAll(of, keys \ {word}), ordered_words \in RankedFor(of[word])}

\* The maps determine_highest_usage may return, one per choice of the
\* iteration orders.
DetermineHighestUsage(of) == RankAll(of, DOMAIN of)

-----------------------------------------------------------------------------
(* Usage::new *)

\* let threshold = if threshold < 0.0 || threshold > 1.0 { 0.75 } else { threshold };
ClampThreshold(t) == IF FLt(t, 0) \/ FGt(t, One) THEN DefaultThreshold ELSE t

\* The loop of Usage::new without the break on rounds == 0.
RECURSIVE FirstFromAllKeys(_, _, _, _)
FirstFromAllKeys(keys, i, rounds, first) ==
    IF i > Len(keys) THEN first
    ELSE FirstFromAllKeys(keys, i + 1, rounds - 1, keys[i])

\* The loop of Usage::new from the i-th key of the iteration on: `first` is
\* overwritten by each key consumed while rounds # 0.
RECURSIVE FirstFrom(_, _, _, _)
FirstFrom(keys, i, rounds, first) ==
    IF i > Len(keys) THEN first
    ELSE IF rounds = 0 THEN first
    ELSE FirstFrom(keys, i + 1, rounds - 1, keys[i])

\* Usage::new(threshold, usage): the walkers it may return, one per order of
\* usage.keys().
UsageNew(t, u) ==
    LET thr == ClampThreshold(t)
    IN  {[threshold |-> thr,
          current   |-> NormalizeWord(FirstFrom(keys, 1, TimesTenAsI32(thr), <<"A">>))] :
            keys \in Orders(DOMAIN u)}

-----------------------------------------------------------------------------
(* parse_arguments *)

\* The arguments of the model.
ArgTokens == {"-p", "-t", "-w", "-x", "0", "1", "0.5", "NaN"}

\* str::parse::<f32>() where it succeeds.
ParseF32 ==
    [s \in {"0", "1", "0.5", "NaN"} |->
        CASE s = "0" -> 0 [] s = "1" -> One [] s = "0.5" -> One \div 2 [] s = "NaN" -> NaN]

\* str::parse::<usize>() where it succeeds.
ParseUsize == [s \in {"0", "1"} |-> CASE s = "0" -> 0 [] s = "1" -> 1]

ArgErr    == [tag |-> "Err", thres |-> 0, words |-> 0]
ArgNone   == [tag |-> "None", thres |-> 0, words |-> 0]
ArgPrint  == [tag |-> "Print", thres |-> 0, words |-> 0]
ArgValues(thres, words) == [tag |-> "Values", thres |-> thres, words |-> words]

\* `args` of parse_arguments: None, or Some(Flags { thres, words }).
NoFlags == [some |-> FALSE, thres |-> 0, words |-> 0]
SomeFlags(thres, words) == [some |-> TRUE, thres |-> thres, words |-> words]

\* The for loop of parse_arguments from the i-th argument on, and the match
\* that follows it.
RECURSIVE ParseFrom(_, _, _, _)
ParseFrom(it, i, kind, flags) ==
    IF i > Len(it)
    THEN IF flags.some THEN ArgValues(flags.thres, flags.words) ELSE ArgNone
    ELSE LET arg == it[i] IN
         CASE kind = "Flag" ->
                CASE arg = "-p" -> ArgPrint
                  [] arg = "-t" -> ParseFrom(it, i + 1, "Threshold", flags)
                  [] arg = "-w" -> ParseFrom(it, i + 1, "Words", flags)
                  [] OTHER      -> ArgErr
           [] kind = "Threshold" ->
                IF arg \notin DOMAIN ParseF32 THEN ArgErr
                ELSE ParseFrom(it, i + 1, "Flag",
                        IF flags.some THEN SomeFlags(ParseF32[arg], flags.words)
                        ELSE SomeFlags(ParseF32[arg], DefaultWords))
           [] kind = "Words" ->
                IF arg \notin DOMAIN ParseUsize THEN ArgErr
                ELSE ParseFrom(it, i + 1, "Flag",
                        IF flags.some THEN SomeFlags(flags.thres, ParseUsize[arg])
                        ELSE SomeFlags(DefaultThreshold, ParseUsize[arg]))

\* parse_arguments(it)
ParseArguments(it) == ParseFrom(it, 1, "Flag", NoFlags)

-----------------------------------------------------------------------------
(* Usage::next *)

NoRet     == [tag |-> "NoRet", item |-> <<>>]
RetNone   == [tag |-> "None", item |-> <<>>]
RetSome(w) == [tag |-> "Some", item |-> w]

\* The exit test of the threshold loop without its ceiling.
AcceptsDrawAboveOnly(x, thr, itp) == FGe(x, thr)

\* The ceiling of the threshold loop compared one draw too late.
AcceptsDrawLate(x, thr, itp) == FGe(x, thr) \/ itp > PercentCeiling

\* The exit test of the threshold loop: x >= self.threshold || it_percent >= 30
AcceptsDraw(x, thr, itp) == FGe(x, thr) \/ itp >= PercentCeiling

\* The threshold loop as a whole: the pairs <<x, k>> of the draw it can leave
\* with and the value it_percent has then, k draws having been rejected.
LoopExits(thr) ==
    {e \in Draws \X (0..PercentCeiling) :
        /\ AcceptsDraw(e[1], thr, e[2])
        /\ \A j \in 0..(e[2] - 1) : \E y \in Draws : ~AcceptsDraw(y, thr, j)}

\* candidates[(percent * (candidates.len() as f32)) as usize]
CharPicked(candidates, p) == candidates[TimesLenAsUsize(p, Len(candidates)) + 1]

\* The test before `continue` with the floor on it_word left out.
RejectsSelfOnly(picked, cur, itw) == picked = cur

\* The test before `continue` with the comparison to self.current left out.
RejectsByFloorOnly(picked, cur, itw) == itw < WordFloor

\* char_picked == &self.current || it_word < 30
Rejects(picked, cur, itw) == picked = cur \/ itw < WordFloor

\* One attempt that stores the pick in self.current before testing it.
AttemptAdvancingOnReject(u, cur, p, itw) ==
    IF cur \notin DOMAIN u THEN [tag |-> "None", item |-> <<>>, current |-> cur]
    ELSE LET picked == CharPicked(u[cur], p)
         IN  IF Rejects(picked, cur, itw)
             THEN [tag |-> "Continue", item |-> <<>>, current |-> picked]
             ELSE [tag |-> "Some", item |-> picked, current |-> picked]

\* One attempt that answers a lookup miss by emitting self.current.
AttemptEmittingOnMiss(u, cur, p, itw) ==
    IF cur \notin DOMAIN u THEN [tag |-> "Some", item |-> cur, current |-> cur]
    ELSE LET picked == CharPicked(u[cur], p)
         IN  IF Rejects(picked, cur, itw)
             THEN [tag |-> "Continue", item |-> <<>>, current |-> cur]
             ELSE [tag |-> "Some", item |-> picked, current |-> picked]

\* One attempt that answers a lookup miss by None and restarts the walk at a
\* key of the model.
AttemptRestartingOnMiss(u, cur, p, itw) ==
    IF cur \notin DOMAIN u
    THEN [tag |-> "None", item |-> <<>>,
          current |-> IF DOMAIN u = {} THEN cur ELSE CHOOSE k \in DOMAIN u : TRUE]
    ELSE LET picked == CharPicked(u[cur], p)
         IN  IF Rejects(picked, cur, itw)
             THEN [tag |-> "Continue", item |-> <<>>, current |-> cur]
             ELSE [tag |-> "Some", item |-> picked, current |-> picked]

\* What follows the threshold loop in one iteration of the outer loop: the
\* lookup (`?` returns None), the pick, and either `continue` or the emission,
\* with the value self.current has afterwards.
Attempt(u, cur, p, itw) ==
    IF cur \notin DOMAIN u THEN [tag |-> "None", item |-> <<>>, current |-> cur]
    ELSE LET picked == CharPicked(u[cur], p)
         IN  IF Rejects(picked, cur, itw)
             THEN [tag |-> "Continue", item |-> <<>>, current |-> cur]
             ELSE [tag |-> "Some", item |-> picked, current |-> picked]

\* it_word += 1.  it_word is only ever compared with 30, so the model keeps
\* min(it_word, 30); the i32 itself overflows after 2^31 rejected attempts.
NextItWord(itw) == IF itw < WordFloor THEN itw + 1 ELSE itw

-----------------------------------------------------------------------------
(* Inputs of the model *)

Space   == <<" ">>
Newline == <<"\n">>

\* The command lines of at most MaxArgs arguments.
ArgLists == UNION {[1..k -> ArgTokens] : k \in 0..MaxArgs}

\* The inputs of at most `lines` lines holding at most `words` words: none,
\* or a first line of k words and then an input within what is left.
RECURSIVE InputsWithin(_, _)
InputsWithin(lines, words) ==
    IF lines = 0 THEN {<<>>}
    ELSE {<<>>} \cup
         UNION {{<<l>> \o rest : l \in [1..k -> RawWords],
                                 rest \in InputsWithin(lines - 1, words - k)} :
                    k \in 0..words}

\* The line "a b a c" of the specification's end-to-end scenario.
LineABAC == <<<<"a">>, <<"b">>, <<"a">>, <<"c">>>>

\* The inputs read with -p: every input within the bounds, and the scenario.
PrintInputs == InputsWithin(MaxLines, MaxWords) \cup {<<LineABAC>>}

\* The inputs under which every command line is run.
SmallInputs == {<<>>, << <<<<"a">>, <<"b">>>> >>}

\* The inputs whose models the walker is pulled on: no line; "a"; "a b a c";
\* "a a b"; "b c"; "A b" then "b".
WalkInputs ==
    { <<>>,
      << <<<<"a">>>> >>,
      << <<<<"a">>, <<"b">>, <<"a">>, <<"c">>>> >>,
      << <<<<"a">>, <<"a">>, <<"b">>>> >>,
      << <<<<"b">>, <<"c">>>> >>,
      << <<<<"A">>, <<"b">>>>, <<<<"b">>>> >> }

\* The f32 values handed to Usage::new: -1.0, 0.0, 0.25, 0.5, 1.0, 2.0 and NaN.
ThresholdInputs == {0 - One, 0, One \div 4, One \div 2, One, 2 * One, NaN}

\* The multiset holding no pair.
NoPairs == [p \in Tokens \X Tokens |-> 0]

\* The number of pairs a multiset holds, counted over the pairs of S.
RECURSIVE PairsIn(_, _)
PairsIn(g, S) ==
    IF S = {} THEN 0
    ELSE LET p == CHOOSE q \in S : TRUE IN g[p] + PairsIn(g, S \ {p})

-----------------------------------------------------------------------------
(* The program *)

walker  == <<threshold, current, seed>>
locals  == <<it_word, it_percent, percent>>
history == <<cur0, npulls, exhausted>>
inputs  == <<argv, stdin>>

\* What no code path has touched yet.
Untouched ==
    /\ nread = 0 /\ args = ArgNone /\ stats = EmptyMap /\ usage = EmptyMap
    /\ threshold = 0 /\ current = <<>> /\ seed = <<>>
    /\ it_word = 0 /\ it_percent = 0 /\ percent = 0 /\ ret = NoRet
    /\ take_n = 0 /\ out = <<>> /\ errd = FALSE /\ dump = EmptyMap
    /\ cur0 = <<>> /\ npulls = 0 /\ exhausted = FALSE /\ given = NoPairs

\* The process at the start of main: every input with -p, and every command
\* line with a small input.
Init ==
    /\ \/ argv = <<"-p">> /\ stdin \in PrintInputs
       \/ argv \in ArgLists /\ stdin \in SmallInputs
    /\ pc = "parse"
    /\ Untouched

\* main, lines 47-54: parse_arguments, and on Err the message, the usage text
\* and the return.
MainParse ==
    /\ pc = "parse"
    /\ args' = ParseArguments(argv)
    /\ IF args'.tag = "Err"
       THEN errd' = TRUE /\ pc' = "usage"
       ELSE errd' = errd /\ pc' = "read"
    /\ UNCHANGED <<inputs, nread, stats, usage, walker, locals, ret, take_n, out,
                   dump, history, given>>

\* read_stats: one iteration of `for line in reader.lines()`.
ReadLine ==
    /\ pc = "read"
    /\ nread < Len(stdin)
    /\ stats' = ReadLineInto(stats, stdin[nread + 1])
    /\ nread' = nread + 1
    /\ UNCHANGED <<inputs, args, usage, walker, locals, ret, take_n, out, errd,
                   dump, pc, history, given>>

\* read_stats returns at the end of input; main, line 59:
\* determine_highest_usage(&stats).
Rank ==
    /\ pc = "read"
    /\ nread = Len(stdin)
    /\ usage' \in DetermineHighestUsage(stats)
    /\ pc' = "match"
    /\ UNCHANGED <<inputs, nread, args, stats, walker, locals, ret, take_n, out,
                   errd, dump, history, given>>

\* The Arguments::Print arm without its `return`: the model is printed and
\* main goes on to generate with the defaults.
MainPrintWithoutReturn ==
    /\ pc = "match"
    /\ args.tag = "Print"
    /\ dump' = usage
    /\ \E w \in UsageNew(DefaultThreshold, usage) :
          /\ threshold' = w.threshold
          /\ current' = w.current
          /\ seed' = w.current
    /\ take_n' = DefaultWords
    /\ pc' = "take"
    /\ UNCHANGED <<inputs, nread, args, stats, usage, locals, ret, out, errd,
                   history, given>>

\* main, lines 65-68: Arguments::Print.
MainPrint ==
    /\ pc = "match"
    /\ args.tag = "Print"
    /\ dump' = usage
    /\ pc' = "printed"
    /\ UNCHANGED <<inputs, nread, args, stats, usage, walker, locals, ret, take_n,
                   out, errd, history, given>>

\* main, lines 62-64 and 72-73: Usage::new(thres, &usage).take(words).
MainNew ==
    /\ pc = "match"
    /\ args.tag \in {"None", "Values"}
    /\ LET thres == IF args.tag = "None" THEN DefaultThreshold ELSE args.thres
           words == IF args.tag = "None" THEN DefaultWords ELSE args.words
       IN  /\ \E w \in UsageNew(thres, usage) :
                /\ threshold' = w.threshold
                /\ current' = w.current
                /\ seed' = w.current
           /\ take_n' = words
    /\ pc' = "take"
    /\ UNCHANGED <<inputs, nread, args, stats, usage, locals, ret, out, errd, dump,
                   history, given>>

\* The entry of Usage::next: let mut it_word = 0, and the first
\* let mut it_percent = 0.
EnterNext ==
    /\ npulls < MaxPulls
    /\ it_word' = 0 /\ it_percent' = 0 /\ percent' = 0
    /\ cur0' = current
    /\ npulls' = npulls + 1
    /\ pc' = "draw"

\* Take::next without its countdown.
TakeNextNotCounting ==
    /\ pc = "take"
    /\ take_n # 0
    /\ take_n' = take_n
    /\ EnterNext
    /\ UNCHANGED <<inputs, nread, args, stats, usage, walker, ret, out, errd, dump,
                   exhausted, given>>

\* write_sentence asks the Take for a word while it has some left: Take::next
\* counts down and calls Usage::next.
TakeNext ==
    /\ pc = "take"
    /\ take_n # 0
    /\ take_n' = take_n - 1
    /\ EnterNext
    /\ UNCHANGED <<inputs, nread, args, stats, usage, walker, ret, out, errd, dump,
                   exhausted, given>>

\* Usage::next, one iteration of the threshold loop: a draw, accepted or
\* counted.
Draw ==
    /\ pc = "draw"
    /\ \E x \in Draws :
          IF AcceptsDraw(x, threshold, it_percent)
          THEN percent' = x /\ pc' = "attempt" /\ UNCHANGED it_percent
          ELSE it_percent' = it_percent + 1 /\ UNCHANGED <<percent, pc>>
    /\ UNCHANGED <<inputs, nread, args, stats, usage, walker, it_word, ret, take_n,
                   out, errd, dump, history, given>>

\* Usage::next, the rest of an iteration of the outer loop: lookup, pick, then
\* None, `continue` (with the next let mut it_percent = 0) or Some.
Pick ==
    /\ pc = "attempt"
    /\ LET a == Attempt(usage, current, percent, it_word) IN
       /\ current' = a.current
       /\ CASE a.tag = "None" ->
                 /\ ret' = RetNone /\ exhausted' = TRUE /\ pc' = "ret"
                 /\ UNCHANGED locals
            [] a.tag = "Some" ->
                 /\ ret' = RetSome(a.item) /\ pc' = "ret"
                 /\ UNCHANGED <<locals, exhausted>>
            [] a.tag = "Continue" ->
                 /\ it_word' = NextItWord(it_word) /\ it_percent' = 0 /\ percent' = 0
                 /\ pc' = "draw"
                 /\ UNCHANGED <<ret, exhausted>>
    /\ UNCHANGED <<inputs, nread, args, stats, usage, threshold, seed, take_n, out,
                   errd, dump, cur0, npulls, given>>

\* write_sentence, the body of its for loop: the word and a space.
WriteWord ==
    /\ pc = "ret"
    /\ ret.tag = "Some"
    /\ out' = out \o <<ret.item, Space>>
    /\ pc' = "take"
    /\ UNCHANGED <<inputs, nread, args, stats, usage, walker, locals, ret, take_n,
                   errd, dump, history, given>>

\* write_sentence after its for loop, which ends when the Take is used up or
\* Usage::next returned None: the newline and the flush.
WriteEnd ==
    /\ \/ pc = "take" /\ take_n = 0
       \/ pc = "ret" /\ ret.tag = "None"
    /\ out' = Append(out, Newline)
    /\ pc' = "done"
    /\ UNCHANGED <<inputs, nread, args, stats, usage, walker, locals, ret, take_n,
                   errd, dump, history, given>>

Next ==
    \/ MainParse
    \/ ReadLine
    \/ Rank
    \/ MainPrint
    \/ MainNew
    \/ TakeNext
    \/ Draw
    \/ Pick
    \/ WriteWord
    \/ WriteEnd

Spec == Init /\ [][Next]_vars

-----------------------------------------------------------------------------
(* The walker under any consumer *)

\* A walker as Usage::new returns it, over the model of one of WalkInputs and
\* with one of ThresholdInputs; args.thres keeps the value supplied.
InitWalk ==
    /\ argv = <<>>
    /\ stdin \in WalkInputs
    /\ nread = Len(stdin)
    /\ stats = ReadStats(stdin)
    /\ usage \in DetermineHighestUsage(stats)
    /\ \E t \in ThresholdInputs :
          /\ args = ArgValues(t, DefaultWords)
          /\ \E w \in UsageNew(t, usage) :
                threshold = w.threshold /\ current = w.current /\ seed = w.current
    /\ it_word = 0 /\ it_percent = 0 /\ percent = 0 /\ ret = NoRet
    /\ take_n = 0 /\ out = <<>> /\ errd = FALSE /\ dump = EmptyMap
    /\ cur0 = <<>> /\ npulls = 0 /\ exhausted = FALSE /\ given = NoPairs
    /\ pc = "idle"

\* The consumer calls Usage::next, whatever the last call returned.
Pull ==
    /\ pc \in {"idle", "ret"}
    /\ EnterNext
    /\ UNCHANGED <<inputs, nread, args, stats, usage, walker, ret, take_n, out, errd,
                   dump, exhausted, given>>

NextWalk ==
    \/ Pull
    \/ Draw
    \/ Pick

SpecWalk == InitWalk /\ [][NextWalk]_vars

\* The walker with the loops of Usage::next never suspended: a running call
\* goes on drawing and picking.
FairWalk == SpecWalk /\ WF_vars(Draw) /\ WF_vars(Pick)

-----------------------------------------------------------------------------
(* The walker with one iteration of the outer loop taken as one step *)

\* The thresholds a walker can have.
Thresholds == {ClampThreshold(t) : t \in ThresholdInputs}

\* LoopExits, computed once for each threshold.
LoopExitsOf == [thr \in Thresholds |-> LoopExits(thr)]

\* Usage::next, one iteration of the outer loop: the threshold loop, left with
\* the draw x after k rejected draws, then the lookup, the pick, and None,
\* `continue` or Some.
Iterate(x) ==
    /\ pc = "draw"
    /\ \E k \in 0..PercentCeiling :
          /\ <<x, k>> \in LoopExitsOf[threshold]
          /\ LET a == Attempt(usage, current, x, it_word) IN
             /\ current' = a.current
             /\ CASE a.tag = "None" ->
                       /\ ret' = RetNone /\ exhausted' = TRUE /\ pc' = "ret"
                       /\ it_percent' = k /\ percent' = x
                       /\ UNCHANGED it_word
                  [] a.tag = "Some" ->
                       /\ ret' = RetSome(a.item) /\ pc' = "ret"
                       /\ it_percent' = k /\ percent' = x
                       /\ UNCHANGED <<it_word, exhausted>>
                  [] a.tag = "Continue" ->
                       /\ it_word' = NextItWord(it_word)
                       /\ it_percent' = 0 /\ percent' = 0
                       /\ UNCHANGED <<ret, pc, exhausted>>
    /\ UNCHANGED <<inputs, nread, args, stats, usage, threshold, seed, take_n, out,
                   errd, dump, cur0, npulls, given>>

NextDraws ==
    \/ Pull
    \/ \E x \in Draws : Iterate(x)

SpecDraws == InitWalk /\ [][NextDraws]_vars

\* Fair draws: while a call runs, each value the threshold loop can be left
\* with is the one it is left with again and again.
FairDraws == SpecDraws /\ \A x \in Draws : WF_vars(Iterate(x))

-----------------------------------------------------------------------------
(* Stats::update and determine_highest_usage on any table *)

InitUpdate ==
    /\ argv = <<>> /\ stdin = <<>>
    /\ Untouched
    /\ pc = "update"

\* stats.update(word, neigh) for any two words.
Update ==
    /\ pc = "update"
    /\ \E word \in Tokens, neigh \in Tokens :
          /\ PairsIn(given, DOMAIN given) < MaxPairs
          /\ stats' = update(stats, word, neigh)
          /\ given' = [given EXCEPT ![<<word, neigh>>] = @ + 1]
    /\ UNCHANGED <<inputs, nread, args, usage, walker, locals, ret, take_n, out, errd,
                   dump, pc, history>>

\* determine_highest_usage(&stats) on the table built so far.
RankTable ==
    /\ pc = "update"
    /\ usage' \in DetermineHighestUsage(stats)
    /\ pc' = "ranked"
    /\ UNCHANGED <<inputs, nread, args, stats, walker, locals, ret, take_n, out, errd,
                   dump, history, given>>

NextUpdate ==
    \/ Update
    \/ RankTable

SpecUpdate == InitUpdate /\ [][NextUpdate]_vars

-----------------------------------------------------------------------------
(* Properties *)

\* A call of Usage::next is running.
Running == pc \in {"draw", "attempt"}

\* The only ranked neighbour of `current` is `current`.
OnlySelf == current \in DOMAIN usage /\ usage[current] = <<current>>

\* a <= b on f32.
FLe(a, b) == a # NaN /\ b # NaN /\ a <= b

\* The walker's threshold lies in [0,1].
ThresholdInRange == FGe(threshold, 0) /\ FLe(threshold, One)

\* C1: for every threshold in [0,1], every call of Usage::next returns (an
\* item or None), also when the only ranked neighbour of the current token is
\* that token.  Stated for that case, where no sequence of draws matters: a
\* call that is running with usage[current] = <<current>> eventually returns.
C1_PullTerminates == (Running /\ OnlySelf /\ ThresholdInRange) ~> ~Running

\* C2: an item returned by Usage::next differs from the walker's `current` as
\* it was when that call started; the first item differs from the seed.
C2_NoSelfLoop ==
    (pc = "ret" /\ ret.tag = "Some") =>
        /\ ret.item # cur0
        /\ (npulls = 1 => ret.item # seed)

\* A call has returned an item from a token that is among its own ranked
\* neighbours.
C2_Witness ==
    /\ pc = "ret" /\ ret.tag = "Some"
    /\ cur0 \in DOMAIN usage
    /\ \E i \in 1..Len(usage[cur0]) : usage[cur0][i] = cur0

\* C3: a walker whose seed is no key of the model yields no item: no call
\* returns Some, the first call returns None, and `current` stays the seed.
C3_AbsentSeedYieldsNothing ==
    (seed \notin DOMAIN usage) =>
        /\ ret.tag # "Some"
        /\ (pc = "ret" => ret.tag = "None")
        /\ current = seed

\* The first call has returned on a non-empty model that lacks the seed.
C3_Witness ==
    /\ seed \notin DOMAIN usage /\ DOMAIN usage # {}
    /\ pc = "ret" /\ npulls = 1

\* C4: once a call of Usage::next has returned None, every later call returns
\* None as well.
C4_ExhaustedIsTerminal == (exhausted /\ pc = "ret") => ret.tag = "None"

\* A second call has returned after the first returned None, on a non-empty
\* model.
C4_Witness ==
    /\ exhausted /\ pc = "ret" /\ npulls = 2
    /\ DOMAIN usage # {}

\* The position after i in a line of n words, cyclically.
After(i, n) == IF i = n THEN 1 ELSE i + 1

\* How often, in `lines`, the word t (normalised) is followed within its line,
\* cyclically, by the word u (normalised).
Followed(lines, t, u) ==
    Cardinality({q \in UNION {{<<l, i>> : i \in 1..Len(lines[l])} : l \in 1..Len(lines)} :
        /\ NormalizeWord(lines[q[1]][q[2]]) = t
        /\ NormalizeWord(lines[q[1]][After(q[2], Len(lines[q[1]]))]) = u})

\* The table holding exactly the transitions of `lines`.
TransitionsOf(lines) ==
    [t \in {t \in Tokens : \E u \in Tokens : Followed(lines, t, u) > 0} |->
        [u \in {u \in Tokens : Followed(lines, t, u) > 0} |-> Followed(lines, t, u)]]

\* The table the specification gives for the line "a b a c".
TableABAC ==
    (<<"a">> :> (<<"b">> :> 1 @@ <<"c">> :> 1))
        @@ (<<"b">> :> (<<"a">> :> 1)) @@ (<<"c">> :> (<<"a">> :> 1))

\* C5: after read_stats has consumed the first nread lines, the table holds
\* exactly, for each of those lines, the pairs of each word (normalised) with
\* the word after it in the same line, the last with the first; for the input
\* "a b a c" it is a -> {b:1, c:1}, b -> {a:1}, c -> {a:1}.
C5_CyclicPairsPerLine ==
    /\ stats = TransitionsOf(SubSeq(stdin, 1, nread))
    /\ (stdin = <<LineABAC>> /\ nread = 1) => stats = TableABAC

\* read_stats has returned on the input "a b a c".
C5_Witness == stdin = <<LineABAC>> /\ pc = "match"

\* The table a multiset of pairs determines.
TableOfPairs(g) ==
    [w \in {w \in Tokens : \E n \in Tokens : g[<<w, n>>] > 0} |->
        [n \in {n \in Tokens : g[<<w, n>>] > 0} |-> g[<<w, n>>]]]

\* C6: the table built by Stats::update from the empty table depends on the
\* multiset of pairs fed to it alone, not on their order.
C6_UpdateOrderIndependent == stats = TableOfPairs(given)

\* Three updates with two different pairs, which can arrive in three orders.
C6_Witness ==
    /\ given[<<<<"a">>, <<"b">>>>] = 2
    /\ given[<<<<"a">>, <<"c">>>>] = 1

\* C7: determine_highest_usage returns a map with the table's keys; each
\* value is non-empty, holds each neighbour of its key once and nothing else,
\* and is in non-decreasing order of the neighbours' counts.
C7_RankedAscending ==
    (pc = "ranked") =>
        /\ DOMAIN usage = DOMAIN stats
        /\ \A w \in DOMAIN usage :
              /\ Len(usage[w]) >= 1
              /\ \A i \in 1..Len(usage[w]) : usage[w][i] \in DOMAIN stats[w]
              /\ \A n \in DOMAIN stats[w] :
                    Cardinality({i \in 1..Len(usage[w]) : usage[w][i] = n}) = 1
              /\ \A i, j \in 1..Len(usage[w]) :
                    i < j => stats[w][usage[w][i]] <= stats[w][usage[w][j]]

\* A word with two neighbours of different counts has been ranked.
C7_Witness ==
    /\ pc = "ranked"
    /\ \E w \in DOMAIN usage :
          /\ Len(usage[w]) >= 2
          /\ stats[w][usage[w][1]] < stats[w][usage[w][2]]

\* The i-th argument stands where a flag's value is expected.
RECURSIVE IsValuePosition(_, _)
IsValuePosition(a, i) ==
    i > 1 /\ a[i - 1] \in {"-t", "-w"} /\ ~IsValuePosition(a, i - 1)

\* The command line ends with -t or -w and no value for it.
MissingValue(a) ==
    Len(a) >= 1 /\ a[Len(a)] \in {"-t", "-w"} /\ ~IsValuePosition(a, Len(a))

\* The command line holds, where a flag is expected, something else than -p,
\* -t or -w.
UnknownFlag(a) ==
    \E i \in 1..Len(a) : ~IsValuePosition(a, i) /\ a[i] \notin {"-p", "-t", "-w"}

\* main has reported a configuration error and returned, having read and
\* written nothing.
ExitedOnError ==
    args.tag = "Err" /\ errd /\ pc = "usage" /\ nread = 0 /\ out = <<>> /\ dump = EmptyMap

\* C8: a command line that ends with -t or -w and no value is a configuration
\* error: parse_arguments returns Err and main exits without reading input.
C8_MissingValueIsError == (pc # "parse" /\ MissingValue(argv)) => ExitedOnError

\* C9: a command line with an unrecognised flag, wherever it stands, is a
\* configuration error: parse_arguments returns Err and main neither prints
\* the model nor generates.
C9_UnknownFlagIsError == (pc # "parse" /\ UnknownFlag(argv)) => ExitedOnError

\* C10: the threshold of a walker that Usage::new has built lies in [0,1].
C10_ThresholdInRange ==
    (pc \in {"take", "draw", "attempt", "ret", "done"}) => ThresholdInRange

-----------------------------------------------------------------------------
(* Properties of the output stage *)

\* A walker exists or has existed: main is at or past Usage::new.
Generating == pc \in {"take", "draw", "attempt", "ret", "done"}

\* C11: when parse_arguments returned Print, no walker is built, Usage::next is
\* never called (so nothing is drawn), nothing is written by write_sentence,
\* and what is printed is the ranked model of the whole input.
C11_PrintBypassesGeneration ==
    (args.tag = "Print") =>
        /\ ~Generating
        /\ npulls = 0 /\ seed = <<>> /\ current = <<>> /\ ret = NoRet
        /\ it_percent = 0 /\ percent = 0
        /\ out = <<>>
        /\ (pc = "printed") =>
              /\ nread = Len(stdin)
              /\ dump = usage
              /\ dump \in DetermineHighestUsage(TransitionsOf(stdin))

\* The model of a non-empty input has been printed.
C11_Witness == pc = "printed" /\ DOMAIN dump # {} /\ args.tag = "Print"

\* The number of words main asks the walker for.
WordCount == IF args.tag = "None" THEN DefaultWords ELSE args.words

\* out is words, each followed by a space, and then `tail`.
WordsThen(tail) ==
    /\ Len(out) >= Len(tail)
    /\ (Len(out) - Len(tail)) % 2 = 0
    /\ SubSeq(out, Len(out) - Len(tail) + 1, Len(out)) = tail
    /\ \A i \in 1..(Len(out) - Len(tail)) :
          IF i % 2 = 0 THEN out[i] = Space ELSE out[i] \notin {Space, Newline}

\* C12: write_sentence calls Usage::next at most wordCount times and writes at
\* most wordCount words, each one returned by the walker, then exactly one
\* newline; with wordCount = 0 the walker is never called and the output is
\* the newline alone.
C12_AtMostWordCountThenNewline ==
    Generating =>
        /\ npulls <= WordCount
        /\ npulls + take_n = WordCount
        /\ Len(out) \div 2 <= npulls
        /\ IF pc = "done" THEN WordsThen(<<Newline>>) ELSE WordsThen(<<>>)
        /\ (WordCount = 0) => (npulls = 0 /\ it_percent = 0 /\ percent = 0)
        /\ (WordCount = 0 /\ pc = "done") => out = <<Newline>>

\* One word was asked for, written, and followed by the newline.
C12_Witness ==
    /\ pc = "done" /\ args.tag = "Values" /\ args.words = 1
    /\ Len(out) = 3

-----------------------------------------------------------------------------
(* Properties of the two loops of Usage::next *)

\* C13: in the threshold loop of one attempt at most PercentCeiling draws are
\* rejected, so at most PercentCeiling + 1 are made; the draw the loop leaves
\* with is at or above the threshold, or PercentCeiling draws were rejected
\* before it; and the loop always ends, for every threshold: it can always
\* draw, and each draw either leaves it or raises the bounded it_percent.
C13_ThresholdLoopBounded ==
    /\ [](/\ it_percent \in 0..PercentCeiling
          /\ (pc = "attempt") =>
                (FGe(percent, threshold) \/ it_percent = PercentCeiling)
          /\ (pc = "draw") => ENABLED Draw)
    /\ [][(pc = "draw") =>
             \/ pc' = "attempt" /\ it_percent' = it_percent
             \/ pc' = "draw" /\ it_percent' = it_percent + 1
                             /\ it_percent < PercentCeiling]_vars

\* With threshold 1 the loop was left by its ceiling, with a draw below 1.
C13_Witness ==
    /\ pc = "attempt" /\ threshold = One
    /\ it_percent = PercentCeiling /\ FLt(percent, threshold)

\* The words of a ranked list.
Elements(list) == {list[i] : i \in 1..Len(list)}

\* C14: the index computed from the accepted draw is a position of the ranked
\* list of self.current; every word Usage::next returns is in the ranked list
\* of the word the call started from, and that word was followed by it in the
\* input (on the first call the word the call started from is the seed); on
\* the input "a b a c" a call from "a" returns "b" or "c".
C14_PickedIsObservedNeighbor ==
    /\ (pc = "attempt" /\ current \in DOMAIN usage) =>
          TimesLenAsUsize(percent, Len(usage[current]))
              \in 0 .. (Len(usage[current]) - 1)
    /\ (npulls = 1) => cur0 = seed
    /\ (pc = "ret" /\ ret.tag = "Some") =>
          /\ cur0 \in DOMAIN usage
          /\ ret.item \in Elements(usage[cur0])
          /\ Followed(stdin, cur0, ret.item) > 0
          /\ (stdin = <<LineABAC>> /\ cur0 = <<"a">>) =>
                ret.item \in {<<"b">>, <<"c">>}

\* On "a b a c" with threshold 0 the first call, from the seed "a", returned
\* "c", the second of its two ranked neighbours.
C14_Witness ==
    /\ pc = "ret" /\ ret = RetSome(<<"c">>) /\ npulls = 1
    /\ stdin = <<LineABAC>> /\ threshold = 0 /\ cur0 = <<"a">>
    /\ usage[cur0] = << <<"b">>, <<"c">> >>

\* C15: a call of Usage::next that finds self.current in the model rejects
\* the picks of its first WordFloor attempts whatever they are, so a word is
\* returned on attempt WordFloor + 1 or later, every attempt having gone
\* through the threshold loop; a call that does not find self.current
\* returns None on its first attempt.
C15_MinimumStepFloor ==
    /\ it_word \in 0..WordFloor
    /\ (pc = "ret" /\ ret.tag = "Some") => it_word = WordFloor
    /\ (pc = "ret" /\ ret.tag = "None") => it_word = 0
    /\ (pc = "attempt" /\ current \in DOMAIN usage /\ it_word < WordFloor) =>
          Attempt(usage, current, percent, it_word).tag = "Continue"

\* A word other than self.current was picked before the floor was reached
\* (and is about to be rejected).
C15_Witness ==
    /\ pc = "attempt" /\ current \in DOMAIN usage
    /\ it_word = WordFloor - 1
    /\ CharPicked(usage[current], percent) # current

\* A step in which Usage::next returns a word.
Emits == pc = "attempt" /\ pc' = "ret" /\ ret'.tag = "Some"

\* C16: self.current changes only in the step that returns a word, and is
\* that word afterwards; a rejected attempt, a rejected draw and the return of
\* None leave it as it was; no step of the walker changes the ranked model.
C16_CurrentChangesOnlyOnEmission ==
    /\ [][/\ usage' = usage
          /\ (current' # current) => Emits
          /\ Emits => (current' = ret'.item /\ current = cur0)
          /\ (pc = "attempt" /\ ~Emits) => current' = current]_vars
    /\ []((pc = "ret" /\ ret.tag = "Some") => current = ret.item)
    /\ []((pc \in {"draw", "attempt"} \/ (pc = "ret" /\ ret.tag = "None")) =>
              current = cur0)

\* A second call returned a word, after rejected attempts: self.current is
\* that word and no longer the one the call started from.
C16_Witness ==
    /\ pc = "ret" /\ npulls = 2 /\ ret.tag = "Some"
    /\ current = ret.item /\ current # cur0 /\ it_word = WordFloor

-----------------------------------------------------------------------------
(* Properties of the table *)

\* The count a table holds for neigh under word; 0 when it holds none.
CountIn(of, word, neigh) ==
    IF word \in DOMAIN of /\ neigh \in DOMAIN of[word] THEN of[word][neigh] ELSE 0

\* C17: one call of Stats::update raises the count of its pair by exactly 1,
\* from 0 when the pair was not in the table, and changes no other count; so
\* no count decreases, no key and no neighbour leaves the table, and every
\* count in the table is at least 1.
C17_UpdateRaisesOneCount ==
    /\ [][/\ \A w \in Tokens, n \in Tokens :
                CountIn(stats', w, n) = CountIn(stats, w, n)
                    + (IF given'[<<w, n>>] # given[<<w, n>>] THEN 1 ELSE 0)
          /\ \A w \in Tokens, n \in Tokens :
                given'[<<w, n>>] \in {given[<<w, n>>], given[<<w, n>>] + 1}
          /\ Cardinality({p \in DOMAIN given : given'[p] # given[p]}) <= 1
          /\ DOMAIN stats \subseteq DOMAIN stats'
          /\ \A w \in DOMAIN stats : DOMAIN stats[w] \subseteq DOMAIN stats'[w]]_vars
    /\ [](\A w \in DOMAIN stats :
              /\ DOMAIN stats[w] # {}
              /\ \A n \in DOMAIN stats[w] : stats[w][n] >= 1)

\* A count raised to 2 next to another neighbour of the same word.
C17_Witness ==
    /\ <<"a">> \in DOMAIN stats
    /\ CountIn(stats, <<"a">>, <<"b">>) = 2
    /\ CountIn(stats, <<"a">>, <<"c">>) = 1
    /\ pc = "update"

\* C18: every word that is a neighbour in the table is a key of the table,
\* after every line read, and the same holds of the ranked model; so the
\* first None of a walker is the result of its first call, from a seed that
\* is not a key, and a walker that has returned a word never returns None.
C18_NeighborsAreKeys ==
    /\ [](\A w \in DOMAIN stats : DOMAIN stats[w] \subseteq DOMAIN stats)
    /\ [](\A w \in DOMAIN usage : Elements(usage[w]) \subseteq DOMAIN usage)
    /\ [][(~exhausted /\ exhausted') =>
              (npulls = 1 /\ current = seed /\ seed \notin DOMAIN usage)]_vars
    /\ []((pc = "ret" /\ npulls > 1) => ret.tag = "Some")
    /\ []((pc \in {"draw", "attempt", "ret"} /\ npulls > 1) =>
              current \in DOMAIN usage)

\* A second call, made after a word was returned, returned a word too.
C18_Witness ==
    /\ pc = "ret" /\ npulls = 2 /\ ret.tag = "Some"
    /\ Len(out) = 2 /\ ~exhausted

-----------------------------------------------------------------------------
(* Progress of Usage::next *)

\* The ranked neighbours of `current` hold a word other than `current`.
HasOther == current \in DOMAIN usage /\ Elements(usage[current]) # {current}

\* The draws the threshold loop can be left with.
AcceptedDraws(thr) == {e[1] : e \in LoopExitsOf[thr]}

\* C19: for every threshold, every position of the ranked list of `current`
\* is the index of a draw the threshold loop can be left with (the draw after
\* PercentCeiling rejected ones is accepted whatever it is); and, with fair
\* draws, a call running on a `current` that has a ranked neighbour other than
\* itself returns a word.
C19_PullEmitsUnderFairDraws ==
    /\ []((Running /\ current \in DOMAIN usage) =>
            \A i \in 1..Len(usage[current]) :
                \E x \in AcceptedDraws(threshold) :
                    TimesLenAsUsize(x, Len(usage[current])) + 1 = i)
    /\ (Running /\ HasOther) ~> (pc = "ret" /\ ret.tag = "Some" /\ ret.item # cur0)

\* With threshold 1, on "a a b", a call from "a", whose ranked neighbours are
\* "a" and "b", returned "b".
C19_Witness ==
    /\ pc = "ret" /\ ret = RetSome(<<"b">>) /\ cur0 = <<"a">>
    /\ threshold = One /\ it_percent = PercentCeiling
    /\ Elements(usage[cur0]) = {<<"a">>, <<"b">>}

-----------------------------------------------------------------------------
(* The seed *)

\* The seed for an order of the keys: with r = (threshold * 10) as i32, "a"
\* when r = 0 or there is no key, else the key at position min(r, #keys).
SeedOf(keys, thr) ==
    LET r == TimesTenAsI32(thr)
        n == Len(keys)
    IN  IF r = 0 \/ n = 0 THEN <<"a">> ELSE keys[IF r < n THEN r ELSE n]

\* C20: the seed is what Usage::new computes from the clamped threshold and
\* the keys of the model: "a" (the literal "A", normalised) when
\* r = (threshold * 10) as i32 is 0, which for a threshold in [0,1] means
\* threshold < 0.1, or when the model has no key; otherwise the key at
\* position min(r, #keys) of the iteration, a key of the model, and then the
\* first call of Usage::next does not return None.
C20_SeedChosenByNew ==
    LET r      == TimesTenAsI32(threshold)
        orders == Orders(DOMAIN usage)
    IN
    /\ \A keys \in orders :
          NormalizeWord(FirstFrom(keys, 1, r, <<"A">>)) = SeedOf(keys, threshold)
    /\ \E keys \in orders : seed = SeedOf(keys, threshold)
    /\ ThresholdInRange => ((r = 0) <=> (threshold * 10 < One))
    /\ IF r = 0 \/ DOMAIN usage = {}
       THEN seed = <<"a">>
       ELSE /\ seed \in DOMAIN usage
            /\ (pc = "ret" /\ npulls = 1) => ret.tag = "Some"

\* With threshold 0.25 (r = 2) on a model of three keys whose iteration does
\* not end with the seed, the first call returned a word.
C20_Witness ==
    /\ TimesTenAsI32(threshold) = 2 /\ Cardinality(DOMAIN usage) = 3
    /\ pc = "ret" /\ npulls = 1 /\ ret.tag = "Some"
    /\ \E keys \in Orders(DOMAIN usage) : keys[2] = seed /\ keys[3] # seed

=============================================================================
